---- MODULE Spec2Model ----
(***************************************************************************)
(* Model of the weight-loss analysis of src/app/page.tsx: the useMemo      *)
(* `analysisResults` of DataAnalysisCard (lines 552-625) and the date      *)
(* filter controls that feed it.                                           *)
(*                                                                         *)
(* Numbers.  A JavaScript number is modelled as an exact rational <<n, d>> *)
(* in lowest terms with d > 0; <<1, 0>>, <<-1, 0>> and <<0, 0>> stand for  *)
(* Infinity, -Infinity and NaN.  Arithmetic is exact: the binary rounding  *)
(* of IEEE doubles is not modelled.  For the weights, body fats and dates  *)
(* of the pools below the doubles of the code and the exact values give    *)
(* the same comparisons and the same rounded fields.                       *)
(*                                                                         *)
(* Dates.  A date string 'YYYY-MM-DD' is modelled by its day number (an    *)
(* integer >= 1); the empty string is EmptyStr.  new Date(s).getTime() of  *)
(* such a string is UTC midnight of that day, i.e. day number * MsPerDay.  *)
(***************************************************************************)
EXTENDS Integers, Sequences, FiniteSets, TLC

VARIABLES
    weightRecords,    \* props.weightRecords of DataAnalysisCard
    dateRange,        \* props.dateRange: [startDate, type, days]
    customDate,       \* useState('') of the date input
    customDays,       \* useState('') of the day-count input, a sequence of characters
    mounted,          \* is a DataAnalysisCard on the page
    analysisResults,  \* the memoised value of the last render
    now,              \* the clock: milliseconds since day 0, as new Date().getTime()
    consultationRecords,    \* Page: the list of consultations
    consultation,           \* Page: the consultation form
    consultationSubTab,     \* Page: the sub-tab of the consultation tab
    consultationDateRange   \* Page: the date filter of the consultation list

\* the state of the consultation tab
consultVars ==
    <<consultationRecords, consultation, consultationSubTab, consultationDateRange>>

vars ==
    <<weightRecords, dateRange, customDate, customDays, mounted, analysisResults, now,
      consultVars>>

-----------------------------------------------------------------------------
(* Exact rational arithmetic standing for JavaScript numbers *)

Abs(i) == IF i < 0 THEN -i ELSE i

Sign(i) == IF i < 0 THEN -1 ELSE IF i > 0 THEN 1 ELSE 0

RECURSIVE GCD(_, _)
GCD(a, b) == IF b = 0 THEN a ELSE GCD(b, a % b)

\* the number n/d in lowest terms; a zero denominator gives Infinity, -Infinity or NaN
Norm(n, d) ==
    IF d = 0 THEN <<Sign(n), 0>>
    ELSE LET g == GCD(Abs(n), Abs(d))
         IN  <<(Sign(d) * n) \div g, Abs(d) \div g>>

\* the integer i as a number
Num(i) == <<i, 1>>

IsFinite(x) == x[2] # 0

IsNaN(x) == x = <<0, 0>>

RAdd(x, y) == Norm(x[1] * y[2] + y[1] * x[2], x[2] * y[2])

RSub(x, y) == Norm(x[1] * y[2] - y[1] * x[2], x[2] * y[2])

RMul(x, y) == Norm(x[1] * y[1], x[2] * y[2])

\* x / y of JavaScript: a zero divisor gives Infinity, -Infinity or NaN, never an error
RDiv(x, y) ==
    IF y[1] = 0 THEN <<Sign(x[1]), 0>>
    ELSE Norm(x[1] * y[2] * Sign(y[1]), x[2] * Abs(y[1]))

RAbs(x) == <<Abs(x[1]), x[2]>>

RLess(x, y) == x[1] * y[2] < y[1] * x[2]

RLeq(x, y) == x[1] * y[2] <= y[1] * x[2]

RMax(x, y) == IF RLess(x, y) THEN y ELSE x

Pow10(k) == IF k = 0 THEN 1 ELSE IF k = 1 THEN 10 ELSE 100

\* +x.toFixed(digits): the nearest multiple of 10^-digits, a tie going away
\* from zero; Infinity and NaN print as themselves and parse back unchanged
ToFixed(x, digits) ==
    IF x[2] = 0 THEN x
    ELSE LET s == Pow10(digits)
             m == (2 * Abs(x[1]) * s + x[2]) \div (2 * x[2])
         IN  Norm(Sign(x[1]) * m, s)

-----------------------------------------------------------------------------
(* Dates *)

EmptyStr == 0

MsPerDay == 86400000

\* new Date(s).getTime() for a date-only string s
GetTime(s) == s * MsPerDay

\* Math.floor of a quotient of integers, b > 0
FloorDiv(a, b) == a \div b

-----------------------------------------------------------------------------
(* The analysis: the body of the useMemo `analysisResults` *)

\* the value returned when there is nothing to analyse
Null == [null |-> TRUE]

\* a comparator that puts the latest date first
CompareByDateDescending(a, b) == GetTime(b.date) - GetTime(a.date)

\* the comparator of the sort: negative, zero or positive
CompareByDate(a, b) == GetTime(a.date) - GetTime(b.date)

\* r put into s in front of the elements that compare equal to it
RECURSIVE InsertUnstable(_, _)
InsertUnstable(r, s) ==
    IF s = <<>> THEN <<r>>
    ELSE IF CompareByDate(Head(s), r) >= 0 THEN <<r>> \o s
    ELSE <<Head(s)>> \o InsertUnstable(r, Tail(s))

\* r put into the sorted sequence s behind every element that does not
\* compare greater: elements that compare equal keep their input order
RECURSIVE Insert(_, _)
Insert(r, s) ==
    IF s = <<>> THEN <<r>>
    ELSE IF CompareByDate(Head(s), r) > 0 THEN <<r>> \o s
    ELSE <<Head(s)>> \o Insert(r, Tail(s))

\* Array.prototype.sort with CompareByDate: ascending and stable
RECURSIVE SortFrom(_, _)
SortFrom(done, rest) ==
    IF rest = <<>> THEN done
    ELSE SortFrom(Insert(Head(rest), done), Tail(rest))

Sort(arr) == SortFrom(<<>>, arr)

\* arr.sort(...): sorts the array it is called on, and returns it
SortInPlace(arr) == [array |-> Sort(arr), sorted |-> Sort(arr)]

\* [...arr].sort(...): sorts a copy; `array` is what arr holds afterwards
SpreadSort(arr) == [array |-> arr, sorted |-> Sort(arr)]

\* the records as they came, not sorted
sortedRecordsAsGiven(records) == records

sortedRecords(records) == SpreadSort(records).sorted

\* has the record passed the date filter: new Date(record.date) >= startDate
KeptStrict(record, startDate) == GetTime(record.date) > GetTime(startDate)

Kept(record, startDate) == GetTime(record.date) >= GetTime(startDate)

RECURSIVE Filter(_, _)
Filter(s, startDate) ==
    IF s = <<>> THEN <<>>
    ELSE IF Kept(Head(s), startDate)
         THEN <<Head(s)>> \o Filter(Tail(s), startDate)
         ELSE Filter(Tail(s), startDate)

\* the whole series when no start date was given
filteredRecordsUnfiltered(sorted, startDate) == sorted

filteredRecords(sorted, startDate) ==
    IF startDate # EmptyStr THEN Filter(sorted, startDate) ELSE sorted

firstRecord(filtered) == filtered[1]

lastRecordButOne(filtered) ==
    filtered[IF Len(filtered) > 1 THEN Len(filtered) - 1 ELSE 1]

lastRecord(filtered) == filtered[Len(filtered)]

\* Math.floor((last.getTime() - first.getTime()) / (1000 * 60 * 60 * 24))
daysBetween(first, last) ==
    FloorDiv(GetTime(last.date) - GetTime(first.date), MsPerDay)

\* daysBetween / 7 with no guard against zero
weeksBetweenUnguarded(days) == Norm(days, 7)

\* the days themselves taken for weeks
weeksBetweenInDays(days) == IF days = 0 THEN Num(1) ELSE Num(days)

\* daysBetween / 7 || 1: a zero quotient is falsy and gives 1
weeksBetween(days) == IF Norm(days, 7) = Num(0) THEN Num(1) ELSE Norm(days, 7)

weeklyWeightLoss(first, last) ==
    RDiv(RSub(first.weight, last.weight), weeksBetween(daysBetween(first, last)))

fatMass(record) == RDiv(RMul(record.weight, record.bodyFat), Num(100))

fatMassLost(first, last) == RSub(fatMass(first), fatMass(last))

leanMass(record) == RSub(record.weight, fatMass(record))

\* the lean mass change taken as a loss, like the fat mass
leanMassChangeAsLoss(first, last) == RSub(leanMass(first), leanMass(last))

leanMassChange(first, last) == RSub(leanMass(last), leanMass(first))

\* the literals of the score
PaceMax == Norm(333, 10)

FatLossMax == Norm(333, 10)

MuscleMax == Norm(334, 10)

IdealLow == Norm(5, 10)

IdealHigh == Num(1)

IdealMid == Norm(75, 100)

idealWeeklyLoss(weekly) == RLeq(IdealLow, weekly) /\ RLeq(weekly, IdealHigh)

\* the penalty with no floor at zero
paceScoreUnfloored(weekly) ==
    IF idealWeeklyLoss(weekly) THEN PaceMax
    ELSE RSub(PaceMax, RMul(RAbs(RSub(weekly, IdealMid)), Num(10)))

paceScore(weekly) ==
    IF idealWeeklyLoss(weekly) THEN PaceMax
    ELSE RMax(Num(0), RSub(PaceMax, RMul(RAbs(RSub(weekly, IdealMid)), Num(10))))

\* fatMassLost >= 0 in place of > 0
fatLossScoreNonStrict(lost) == IF RLeq(Num(0), lost) THEN FatLossMax ELSE Num(0)

goodBodyFatLoss(lost) == RLess(Num(0), lost)

fatLossScore(lost) == IF goodBodyFatLoss(lost) THEN FatLossMax ELSE Num(0)

preservedMuscle(change) == RLeq(Num(0), change)

\* 33.3 for the third part as for the other two
muscleScoreAsOthers(change) == IF RLeq(Num(0), change) THEN FatLossMax ELSE Num(0)

muscleScore(change) == IF preservedMuscle(change) THEN MuscleMax ELSE Num(0)

\* [pace, fat, muscle].reduce((sum, val) => sum + val, 0)
successRate(first, last) ==
    RAdd(RAdd(RAdd(Num(0), paceScore(weeklyWeightLoss(first, last))),
              fatLossScore(fatMassLost(first, last))),
         muscleScore(leanMassChange(first, last)))

\* muscle mass change taken first minus last, as the weight change is
muscleMassChangeFirstMinusLast(first, last) ==
    ToFixed(RSub(first.muscleMass, last.muscleMass), 1)

\* the muscleMassChange field: last minus first
muscleMassChange(first, last) == ToFixed(RSub(last.muscleMass, first.muscleMass), 1)

\* a rate that is 0 where the divisor is 0
bodyFatLossRateGuarded(first, last) ==
    IF first.bodyFat[1] = 0 THEN Num(0)
    ELSE ToFixed(RMul(RDiv(RSub(first.bodyFat, last.bodyFat), first.bodyFat), Num(100)), 1)

\* the weightLossRate field
weightLossRate(first, last) ==
    ToFixed(RMul(RDiv(RSub(first.weight, last.weight), first.weight), Num(100)), 1)

\* the bodyFatLossRate field
bodyFatLossRate(first, last) ==
    ToFixed(RMul(RDiv(RSub(first.bodyFat, last.bodyFat), first.bodyFat), Num(100)), 1)

\* the object returned for the two endpoint records
Result(first, last) ==
    [ startDate                |-> first.date,
      endDate                  |-> last.date,
      daysBetween              |-> daysBetween(first, last),
      startWeight              |-> first.weight,
      endWeight                |-> last.weight,
      weightChange             |-> ToFixed(RSub(first.weight, last.weight), 1),
      startBodyFat             |-> first.bodyFat,
      endBodyFat               |-> last.bodyFat,
      bodyFatChange            |-> ToFixed(RSub(first.bodyFat, last.bodyFat), 1),
      averageWeightLossPerWeek |-> ToFixed(weeklyWeightLoss(first, last), 2),
      bmiChange                |-> ToFixed(RSub(first.bmi, last.bmi), 1),
      visceralFatChange        |-> RSub(first.visceralFat, last.visceralFat),
      muscleMassChange         |-> muscleMassChange(first, last),
      fatMassLost              |-> ToFixed(fatMassLost(first, last), 1),
      leanMassChange           |-> ToFixed(leanMassChange(first, last), 1),
      waterRateChange          |-> ToFixed(RSub(last.waterRate, first.waterRate), 1),
      weightLossRate           |-> weightLossRate(first, last),
      bodyFatLossRate          |-> bodyFatLossRate(first, last),
      successRate              |-> ToFixed(successRate(first, last), 1) ]

\* the useMemo callback: the analysis of `records` from `startDate` on
Analyze(records, startDate) ==
    IF Len(records) = 0 THEN Null
    ELSE LET filtered == filteredRecords(sortedRecords(records), startDate)
         IN  IF Len(filtered) = 0 THEN Null
             ELSE Result(firstRecord(filtered), lastRecord(filtered))

\* a text that calls 80 excellent, 60 good and 40 fair already
successTextNonStrict(rate) ==
    IF RLeq(Num(80), rate) THEN "excellent"
    ELSE IF RLeq(Num(60), rate) THEN "good"
    ELSE IF RLeq(Num(40), rate) THEN "fair"
    ELSE "poor"

\* backgroundColor of the bar of the success index: a key of `colors`
backgroundColor(rate) ==
    IF RLess(Num(80), rate) THEN "success"
    ELSE IF RLess(Num(60), rate) THEN "info"
    ELSE IF RLess(Num(40), rate) THEN "warning"
    ELSE "danger"

\* the text under the bar, by its meaning: excellent results, good progress,
\* losing but to be improved (fair), unsatisfactory (poor)
successText(rate) ==
    IF RLess(Num(80), rate) THEN "excellent"
    ELSE IF RLess(Num(60), rate) THEN "good"
    ELSE IF RLess(Num(40), rate) THEN "fair"
    ELSE "poor"

\* the colour of the weight change of the weight panel: a key of `colors`
weightChangeColor(results) ==
    IF RLess(Num(0), results.weightChange) THEN "danger" ELSE "success"

\* the sign printed in front of the weight change
weightChangeSign(results) ==
    IF RLess(Num(0), results.weightChange) THEN "+" ELSE ""

\* the colour of the weight loss percentage of the weight panel
weightLossRateColor(results) ==
    IF RLess(Num(0), results.weightLossRate) THEN "success" ELSE "danger"

\* the branch of the card's render: the panels of a result, or the notice
\* that no data matches the range
Render(results) ==
    IF results = Null THEN [view |-> "noData"]
    ELSE [view |-> "populated", results |-> results]

-----------------------------------------------------------------------------
(* The inputs the model is run on *)

\* the longest series of the narrow pool
MaxLen == 3

\* record dates: spans of 0, 1, 13 and 14 days
Dates == {1, 2, 15}

\* dates typed into the date input: on a record date, and after every record
FilterDates == {2, 16}

Weights == {<<85, 1>>, <<86, 1>>, <<173, 2>>, <<90, 1>>}

BodyFats == {<<0, 1>>, <<34, 1>>, <<36, 1>>}

\* the fields the score does not read, as in the sample rows of the page
Extras ==
    { [bmi |-> <<55, 2>>, visceralFat |-> <<10, 1>>, waterRate |-> <<55, 1>>,
       muscleMass |-> <<40, 1>>, boneMineral |-> <<16, 5>>, bmr |-> <<1500, 1>>],
      [bmi |-> <<134, 5>>, visceralFat |-> <<9, 1>>, waterRate |-> <<56, 1>>,
       muscleMass |-> <<41, 1>>, boneMineral |-> <<33, 10>>, bmr |-> <<1480, 1>>] }

Measurement(d, w, f, x) ==
    [date |-> d, weight |-> w, bodyFat |-> f, bmi |-> x.bmi,
     visceralFat |-> x.visceralFat, waterRate |-> x.waterRate,
     muscleMass |-> x.muscleMass, boneMineral |-> x.boneMineral, bmr |-> x.bmr]

FirstExtras == CHOOSE x \in Extras : x.bmi = <<55, 2>>

\* two weights at one body fat, with the first sample row's other fields
NarrowPool ==
    {Measurement(d, w, <<36, 1>>, FirstExtras) : d \in Dates, w \in {<<85, 1>>, <<90, 1>>}}

\* weights at the edges: none at all, and 85.04, within 0.05 of 85
EdgeWeights == {<<0, 1>>, <<2126, 25>>}

\* every date, weight and body fat with the first sample row's other fields,
\* the narrow pool's measurements with either row's other fields, and the
\* edge weights on every date
WidePool ==
    {Measurement(d, w, f, FirstExtras) : d \in Dates, w \in Weights, f \in BodyFats}
        \cup {Measurement(m.date, m.weight, m.bodyFat, x) : m \in NarrowPool, x \in Extras}
        \cup {Measurement(d, w, <<36, 1>>, FirstExtras) : d \in Dates, w \in EdgeWeights}

SeqsOf(S, n) == UNION {[1..k -> S] : k \in 0..n}

\* a WeightRecord: the measurement m with the given id
WeightRecord(id, m) ==
    [id |-> id, date |-> m.date, weight |-> m.weight, bodyFat |-> m.bodyFat,
     bmi |-> m.bmi, visceralFat |-> m.visceralFat, waterRate |-> m.waterRate,
     muscleMass |-> m.muscleMass, boneMineral |-> m.boneMineral, bmr |-> m.bmr]

\* the measurement at position i gets id i
WithIds(ms) == [i \in 1..Len(ms) |-> WeightRecord(i, ms[i])]

\* last records that put the success rate on 80.0, 60.0 and 40.0 after
\* 14 days: 87.5 kg at 34 % (from 85 kg), 87.18 kg and 83.18 kg at 36 %
\* (from 90 kg)
BandLasts ==
    {Measurement(15, w, <<34, 1>>, FirstExtras) : w \in {<<175, 2>>}}
        \cup {Measurement(15, w, <<36, 1>>, FirstExtras) : w \in {<<4359, 50>>, <<4159, 50>>}}

BandPairs == {<<f, l>> : f \in {m \in NarrowPool : m.date = 1}, l \in BandLasts}

\* series of up to MaxLen records of the narrow pool, in any order, series of
\* up to two records of the wide pool, and the pairs on the band thresholds
Series ==
    {WithIds(ms) : ms \in SeqsOf(NarrowPool, MaxLen) \cup SeqsOf(WidePool, 2) \cup BandPairs}

-----------------------------------------------------------------------------
(* The component: its state and its handlers *)

NoFilter == [startDate |-> EmptyStr, type |-> "all", days |-> 0]

\* '' in the day-count input
NoDays == <<>>

Digit == <<"0", "1", "2", "3", "4", "5", "6", "7", "8", "9">>

IsDigit(c) == \E d \in 1..10 : Digit[d] = c

DigitValue(c) == (CHOOSE d \in 1..10 : Digit[d] = c) - 1

\* the number the digits of s spell
RECURSIVE ValueOf(_)
ValueOf(s) ==
    IF s = <<>> THEN 0
    ELSE 10 * ValueOf(SubSeq(s, 1, Len(s) - 1)) + DigitValue(s[Len(s)])

\* parseInt: an optional sign, then the digits up to the first character that
\* is none; NaN when there is no digit
ParseInt(s) ==
    LET signed == s # <<>> /\ s[1] \in {"-", "+"}
        body   == IF signed THEN Tail(s) ELSE s
        k      == CHOOSE n \in 0..Len(body) :
                      /\ \A i \in 1..n : IsDigit(body[i])
                      /\ n = Len(body) \/ ~IsDigit(body[n + 1])
    IN  IF k = 0 THEN <<0, 0>>
        ELSE IF signed /\ s[1] = "-" THEN Num(-ValueOf(SubSeq(body, 1, k)))
        ELSE Num(ValueOf(SubSeq(body, 1, k)))

\* Number.prototype.toString of a whole number n >= 0
RECURSIVE toString(_)
toString(n) ==
    IF n < 10 THEN <<Digit[n + 1]>>
    ELSE toString(n \div 10) \o <<Digit[(n % 10) + 1]>>

\* toISOString().split('T')[0] of the instant t: its calendar date in UTC
ToISODate(t) == FloorDiv(t, MsPerDay)

\* the day of the first instant of the clock
ClockStartDay == 16

\* the clock stops before this day
ClockEndDay == 18

\* the step of the clock: half a day
TickMs == 43200000

\* the id of a form that edits no record: null
NoId == <<>>

\* the id n of a record
Id(n) == <<n>>

\* the form as it is set up and reset
BlankConsultation ==
    [id |-> NoId, consultationDate |-> EmptyStr, preConsultation |-> "",
     postConsultation |-> "", consultationType |-> "in-person"]

NoConsultationFilter == [startDate |-> EmptyStr, endDate |-> EmptyStr]

\* the useState initial values of the consultation tab
InitialConsultations ==
    /\ consultationRecords = <<>>
    /\ consultation = BlankConsultation
    /\ consultationSubTab = "newConsultation"
    /\ consultationDateRange = NoConsultationFilter

Init ==
    /\ weightRecords \in Series
    /\ dateRange = NoFilter
    /\ customDate = EmptyStr
    /\ customDays = NoDays
    /\ mounted = FALSE
    /\ analysisResults = Null
    /\ now = ClockStartDay * MsPerDay
    /\ InitialConsultations

\* a memo that resolves a rolling window against the clock of the render
RecomputeFromClock(range) ==
    /\ analysisResults' =
           Analyze(weightRecords,
                   IF range.type = "days"
                   THEN ToISODate(now - range.days * MsPerDay)
                   ELSE range.startDate)
    /\ weightRecords' = SpreadSort(weightRecords).array

\* a render in which weightRecords or dateRange is new: the memo is recomputed
Recompute(range) ==
    /\ analysisResults' = Analyze(weightRecords, range.startDate)
    /\ weightRecords' = SpreadSort(weightRecords).array

\* a tab with a DataAnalysisCard is opened from one without: its first render
Mount ==
    /\ ~mounted
    /\ mounted' = TRUE
    /\ Recompute(dateRange)
    /\ UNCHANGED <<dateRange, customDate, customDays, now, consultVars>>

\* a tab without a DataAnalysisCard is opened: the card and its state are gone
Unmount ==
    /\ mounted
    /\ mounted' = FALSE
    /\ customDate' = EmptyStr
    /\ customDays' = NoDays
    /\ analysisResults' = Null
    /\ UNCHANGED <<weightRecords, dateRange, now, consultVars>>

\* a switch between tabs that resolves the window of the page anew
RemountResolving ==
    /\ mounted
    /\ customDate' = EmptyStr
    /\ customDays' = NoDays
    /\ dateRange' = IF dateRange.type = "days"
                    THEN [dateRange EXCEPT
                              !.startDate = ToISODate(now - dateRange.days * MsPerDay)]
                    ELSE dateRange
    /\ Recompute(dateRange')
    /\ UNCHANGED <<mounted, now, consultVars>>

\* a switch between two tabs that each hold a DataAnalysisCard: a new card,
\* with the dateRange of the page
Remount ==
    /\ mounted
    /\ customDate' = EmptyStr
    /\ customDays' = NoDays
    /\ Recompute(dateRange)
    /\ UNCHANGED <<dateRange, mounted, now, consultVars>>

\* time passes
Tick ==
    /\ now + TickMs < ClockEndDay * MsPerDay
    /\ now' = now + TickMs
    /\ UNCHANGED <<weightRecords, dateRange, customDate, customDays, mounted,
                   analysisResults, consultVars>>

\* onChange of the date input
SetCustomDate(value) ==
    /\ mounted
    /\ customDate' = value
    /\ UNCHANGED <<weightRecords, dateRange, customDays, mounted, analysisResults, now, consultVars>>

\* an apply of the date that leaves the day-count input as it is
ApplyCustomDateKeepingDays ==
    /\ mounted
    /\ customDate # EmptyStr
    /\ dateRange' = [startDate |-> customDate, type |-> "custom", days |-> 0]
    /\ Recompute(dateRange')
    /\ UNCHANGED <<customDate, customDays, mounted, now, consultVars>>

\* onClick of the apply button of the date input
ApplyCustomDate ==
    /\ mounted
    /\ customDate # EmptyStr
    /\ dateRange' = [startDate |-> customDate, type |-> "custom", days |-> 0]
    /\ customDays' = NoDays
    /\ Recompute(dateRange')
    /\ UNCHANGED <<customDate, mounted, now, consultVars>>

\* onChange of the slider and of the number input
SetCustomDays(value) ==
    /\ mounted
    /\ customDays' = value
    /\ UNCHANGED <<weightRecords, dateRange, customDate, mounted, analysisResults, now, consultVars>>

\* a window that counts today as its first day
ApplyCustomDaysInclusive ==
    /\ mounted
    /\ customDays # NoDays /\ ~IsNaN(ParseInt(customDays))
    /\ LET days      == ParseInt(customDays)[1]
           startDate == now - (days - 1) * MsPerDay
       IN  dateRange' = [startDate |-> ToISODate(startDate), type |-> "days", days |-> days]
    /\ customDate' = EmptyStr
    /\ Recompute(dateRange')
    /\ UNCHANGED <<customDays, mounted, now, consultVars>>

\* onClick of the apply button of the day-count input
ApplyCustomDays ==
    /\ mounted
    /\ customDays # NoDays /\ ~IsNaN(ParseInt(customDays))
    /\ LET days      == ParseInt(customDays)[1]
           today     == now
           startDate == today - days * MsPerDay
       IN  dateRange' = [startDate |-> ToISODate(startDate), type |-> "days", days |-> days]
    /\ customDate' = EmptyStr
    /\ Recompute(dateRange')
    /\ UNCHANGED <<customDays, mounted, now, consultVars>>

\* onClick of the quick-select button of `days` days
QuickSelect(days) ==
    /\ mounted
    /\ customDays' = toString(days)
    /\ LET today     == now
           startDate == today - days * MsPerDay
       IN  dateRange' = [startDate |-> ToISODate(startDate), type |-> "days", days |-> days]
    /\ customDate' = EmptyStr
    /\ Recompute(dateRange')
    /\ UNCHANGED <<mounted, now, consultVars>>

\* a reset that leaves the memo as it was
ResetStale ==
    /\ mounted
    /\ dateRange' = NoFilter
    /\ customDate' = EmptyStr
    /\ customDays' = NoDays
    /\ UNCHANGED <<weightRecords, mounted, analysisResults, now, consultVars>>

\* onClick of the reset button
Reset ==
    /\ mounted
    /\ dateRange' = NoFilter
    /\ customDate' = EmptyStr
    /\ customDays' = NoDays
    /\ Recompute(dateRange')
    /\ UNCHANGED <<mounted, now, consultVars>>

\* the analysis of a series under the date filter
Next ==
    \/ Mount
    \/ \E value \in FilterDates \cup {EmptyStr} : SetCustomDate(value)
    \/ ApplyCustomDate
    \/ Reset

Spec == Init /\ [][Next]_vars

\* the series of the filter: no record, one, or two of 90 kg on the first two
\* dates and 85 kg on the last
FilterPool == {m \in NarrowPool : m.weight = (IF m.date = 15 THEN <<85, 1>> ELSE <<90, 1>>)}

FilterSeries == {WithIds(ms) : ms \in SeqsOf(FilterPool, 2)}

\* texts the day-count input can hold: '', '0', '-2', '1.5', '14', '.5'
TypedDays ==
    {NoDays, <<"0">>, <<"-", "2">>, <<"1", ".", "5">>, <<"1", "4">>, <<".", "5">>}

\* the quick-select buttons of 7 and 14 days
QuickDays == {7, 14}

InitFilter ==
    /\ weightRecords \in FilterSeries
    /\ dateRange = NoFilter
    /\ customDate = EmptyStr
    /\ customDays = NoDays
    /\ mounted = FALSE
    /\ analysisResults = Null
    /\ now = ClockStartDay * MsPerDay
    /\ InitialConsultations

\* the date filter with its clock and the tabs of the page
NextFilter ==
    \/ Mount
    \/ Unmount
    \/ Remount
    \/ Tick
    \/ \E value \in FilterDates \cup {EmptyStr} : SetCustomDate(value)
    \/ ApplyCustomDate
    \/ \E value \in TypedDays : SetCustomDays(value)
    \/ ApplyCustomDays
    \/ \E days \in QuickDays : QuickSelect(days)
    \/ Reset

SpecFilter == InitFilter /\ [][NextFilter]_vars

\* the first sample row's other fields with a visceral fat of 9.25
FractionalExtras == [FirstExtras EXCEPT !.visceralFat = <<37, 4>>]

\* series for the rounding of the fields: no zero divisor, visceral fat 10
\* or 9.25
RoundingPool ==
    {Measurement(d, w, <<36, 1>>, x) :
        d \in {1, 15}, w \in {<<85, 1>>, <<90, 1>>}, x \in {FirstExtras, FractionalExtras}}

RoundingSeries == {WithIds(ms) : ms \in SeqsOf(RoundingPool, 2)}

InitRounding ==
    /\ weightRecords \in RoundingSeries
    /\ dateRange = NoFilter
    /\ customDate = EmptyStr
    /\ customDays = NoDays
    /\ mounted = FALSE
    /\ analysisResults = Null
    /\ now = ClockStartDay * MsPerDay
    /\ InitialConsultations

\* the analysis of the rounding series under the date filter
SpecRounding == InitRounding /\ [][Next]_vars

-----------------------------------------------------------------------------
(* The consultation tab of the page *)

\* a filter that compares with whichever bound is set
ShownInListEitherBound(record, range) ==
    /\ range.startDate # EmptyStr => record.consultationDate >= range.startDate
    /\ range.endDate # EmptyStr => record.consultationDate <= range.endDate

\* has the record passed the filter of the list: both bounds are compared
\* only when both are set
ShownInList(record, range) ==
    IF range.startDate # EmptyStr /\ range.endDate # EmptyStr
    THEN record.consultationDate >= range.startDate /\
         record.consultationDate <= range.endDate
    ELSE TRUE

\* the positions of the records that the list shows, in their order
filteredConsultations(records, range) ==
    SelectSeq([i \in 1..Len(records) |-> i], LAMBDA i : ShownInList(records[i], range))

\* the list after handleConsultationSubmit of the form at clock t
Submitted(prev, form, t) ==
    IF form.id = NoId
    THEN prev \o <<[form EXCEPT !.id = Id(t)]>>
    ELSE [i \in 1..Len(prev) |-> IF prev[i].id = form.id THEN form ELSE prev[i]]

\* the card of the sub-tab 'analysis' comes and goes with the sub-tab
CardFollows(tab) ==
    /\ mounted' = (tab = "analysis")
    /\ customDate' = EmptyStr
    /\ customDays' = NoDays
    /\ IF tab = "analysis"
       THEN Recompute(dateRange)
       ELSE analysisResults' = Null /\ UNCHANGED weightRecords
    /\ UNCHANGED <<dateRange, now>>

\* a change of sub-tab that leaves the form as it is
OnTabChangeKeepingForm(tab) ==
    /\ consultationSubTab' = tab
    /\ CardFollows(tab)
    /\ UNCHANGED <<consultationRecords, consultation, consultationDateRange>>

\* onTabChange of the sub-tabs of the consultation tab
OnTabChange(tab) ==
    /\ consultationSubTab' = tab
    /\ consultation' = IF tab # "newConsultation" /\ consultation.id # NoId
                       THEN BlankConsultation
                       ELSE consultation
    /\ CardFollows(tab)
    /\ UNCHANGED <<consultationRecords, consultationDateRange>>

\* the card and the clock stay as they are
CardUnchanged ==
    UNCHANGED <<weightRecords, dateRange, customDate, customDays, mounted,
                analysisResults, now>>

\* handleConsultationChange: an input of the form is edited
HandleConsultationChange(name, value) ==
    /\ consultationSubTab = "newConsultation"
    /\ consultation' = [consultation EXCEPT ![name] = value]
    /\ CardUnchanged
    /\ UNCHANGED <<consultationRecords, consultationSubTab, consultationDateRange>>

\* the most records the list is let grow to
MaxRecords == 2

\* onSubmit of the form, which the browser allows when the required fields
\* are filled in: handleConsultationSubmit, then the sub-tab 'records'
SubmitConsultation ==
    /\ consultationSubTab = "newConsultation"
    /\ consultation.consultationDate # EmptyStr
    /\ consultation.preConsultation # ""
    /\ consultation.postConsultation # ""
    /\ consultation.id = NoId => Len(consultationRecords) < MaxRecords
    /\ consultationRecords' = Submitted(consultationRecords, consultation, now)
    /\ consultation' = BlankConsultation
    /\ consultationSubTab' = "records"
    /\ CardUnchanged
    /\ UNCHANGED consultationDateRange

\* onClick of the edit button of the i-th record of the list:
\* handleConsultationEdit of its id, then the sub-tab 'newConsultation'
EditConsultation(i) ==
    /\ consultationSubTab = "records"
    /\ \E shown \in {filteredConsultations(consultationRecords, consultationDateRange)} :
           \E k \in 1..Len(shown) : shown[k] = i
    /\ LET id     == consultationRecords[i].id
           found  == {j \in 1..Len(consultationRecords) : consultationRecords[j].id = id}
           record == consultationRecords[CHOOSE j \in found : \A h \in found : j <= h]
       IN  consultation' = record
    /\ consultationSubTab' = "newConsultation"
    /\ CardUnchanged
    /\ UNCHANGED <<consultationRecords, consultationDateRange>>

\* onClick of the cancel button of a form that edits a record
CancelEdit ==
    /\ consultationSubTab = "newConsultation"
    /\ consultation.id # NoId
    /\ consultation' = BlankConsultation
    /\ CardUnchanged
    /\ UNCHANGED <<consultationRecords, consultationSubTab, consultationDateRange>>

\* onChange of the start date of the list filter
SetFilterStart(value) ==
    /\ consultationSubTab = "records"
    /\ consultationDateRange' = [consultationDateRange EXCEPT !.startDate = value]
    /\ CardUnchanged
    /\ UNCHANGED <<consultationRecords, consultation, consultationSubTab>>

\* onChange of the end date of the list filter
SetFilterEnd(value) ==
    /\ consultationSubTab = "records"
    /\ consultationDateRange' = [consultationDateRange EXCEPT !.endDate = value]
    /\ CardUnchanged
    /\ UNCHANGED <<consultationRecords, consultation, consultationSubTab>>

\* onClick of the reset button of the list filter
ResetFilter ==
    /\ consultationSubTab = "records"
    /\ consultationDateRange' = NoConsultationFilter
    /\ CardUnchanged
    /\ UNCHANGED <<consultationRecords, consultation, consultationSubTab>>

SubTabs == {"newConsultation", "records", "memberInfo", "analysis"}

\* values typed into the form: two dates, one text for each note
FormValues ==
    [consultationDate |-> {2, 15}, preConsultation |-> {"a"}, postConsultation |-> {"b"}]

\* the one series the card of the consultation tab analyses
ConsultSeries == CHOOSE series \in FilterSeries : Len(series) = 2 /\ series[1].date < series[2].date

InitConsult ==
    /\ weightRecords = ConsultSeries
    /\ dateRange = NoFilter
    /\ customDate = EmptyStr
    /\ customDays = NoDays
    /\ mounted = FALSE
    /\ analysisResults = Null
    /\ now = ClockStartDay * MsPerDay
    /\ InitialConsultations

\* the consultation tab: the form, the list and the sub-tabs, with the clock
NextConsult ==
    \/ \E tab \in SubTabs : OnTabChange(tab)
    \/ \E name \in DOMAIN FormValues : \E value \in FormValues[name] :
           HandleConsultationChange(name, value)
    \/ SubmitConsultation
    \/ \E i \in 1..MaxRecords : EditConsultation(i)
    \/ CancelEdit
    \/ Tick

SpecConsult == InitConsult /\ [][NextConsult]_vars

\* consultations on file: before, on and after the dates of the filter
ListDates == {1, 2, 15, 16}

\* lists of up to MaxRecords consultations, numbered in their order
ListSeries ==
    {[i \in 1..Len(ds) |->
         [id |-> Id(i), consultationDate |-> ds[i], preConsultation |-> "a",
          postConsultation |-> "b", consultationType |-> "in-person"]] :
     ds \in SeqsOf(ListDates, MaxRecords)}

InitList ==
    /\ weightRecords = ConsultSeries
    /\ dateRange = NoFilter
    /\ customDate = EmptyStr
    /\ customDays = NoDays
    /\ mounted = FALSE
    /\ analysisResults = Null
    /\ now = ClockStartDay * MsPerDay
    /\ consultationRecords \in ListSeries
    /\ consultation = BlankConsultation
    /\ consultationSubTab = "records"
    /\ consultationDateRange = NoConsultationFilter

\* the date filter of the consultation list
NextList ==
    \/ \E value \in {EmptyStr, 2, 15} : SetFilterStart(value)
    \/ \E value \in {EmptyStr, 2, 15} : SetFilterEnd(value)
    \/ ResetFilter

SpecList == InitList /\ [][NextList]_vars

-----------------------------------------------------------------------------
(* Vocabulary of the properties *)

\* a populated result is on display
Shown == mounted /\ analysisResults # Null

\* the positions of weightRecords that the start date sd keeps
KeptAt(sd) ==
    {i \in 1..Len(weightRecords) : sd = EmptyStr \/ weightRecords[i].date >= sd}

MinDate(I) == CHOOSE d \in {weightRecords[i].date : i \in I} :
                  \A i \in I : d <= weightRecords[i].date

MaxDate(I) == CHOOSE d \in {weightRecords[i].date : i \in I} :
                  \A i \in I : d >= weightRecords[i].date

MinOf(I) == CHOOSE i \in I : \A j \in I : i <= j

MaxOf(I) == CHOOSE i \in I : \A j \in I : i >= j

\* the filtered, sorted records of the current state, and their two ends
CurrentFiltered == filteredRecords(sortedRecords(weightRecords), dateRange.startDate)

CurrentFirst == firstRecord(CurrentFiltered)

CurrentLast == lastRecord(CurrentFiltered)

\* the series s rearranged by the permutation f of its positions
Rearranged(s, f) == [i \in 1..Len(s) |-> s[f[i]]]

\* f leaves records that share a date in their relative order
KeepsTies(s, f) ==
    \A i, j \in 1..Len(s) : (i < j /\ s[f[i]].date = s[f[j]].date) => f[i] < f[j]

Unsorted(s) == \E i, j \in 1..Len(s) : i < j /\ s[i].date > s[j].date

-----------------------------------------------------------------------------
(* Properties *)

\* C1: an empty series gives no result under any filter, and so does a
\* series none of whose records is dated on or after a given start date.
C1_NoDataGivesNull ==
    mounted =>
        /\ Len(weightRecords) = 0 => analysisResults = Null
        /\ ( /\ dateRange.startDate # EmptyStr
             /\ \A i \in 1..Len(weightRecords) :
                    weightRecords[i].date < dateRange.startDate )
           => analysisResults = Null

\* C1: records exist, a start date is set, and it excludes every record
C1_Witness ==
    /\ mounted
    /\ Len(weightRecords) = 2
    /\ dateRange.startDate = 16
    /\ analysisResults = Null

\* C2 as stated: every rearrangement of the series gives the result on
\* display, also when records share a date.
C2_AnyOrderSameResult ==
    mounted =>
        \A f \in Permutations(1..Len(weightRecords)) :
            Analyze(Rearranged(weightRecords, f), dateRange.startDate) = analysisResults

\* C2 amended: every rearrangement that leaves the records sharing a date in
\* their relative order gives the result on display.
C2_OrderOfDistinctDatesIrrelevant ==
    mounted =>
        \A f \in Permutations(1..Len(weightRecords)) :
            KeepsTies(weightRecords, f) =>
                Analyze(Rearranged(weightRecords, f), dateRange.startDate) = analysisResults

\* C2: an unsorted series of three with two records on one date, analysed
C2_Witness ==
    /\ Shown
    /\ Len(weightRecords) = 3
    /\ Unsorted(weightRecords)
    /\ \E i, j \in 1..3 : i # j /\ weightRecords[i].date = weightRecords[j].date
    /\ \E f \in Permutations(1..3) :
           /\ KeepsTies(weightRecords, f)
           /\ Rearranged(weightRecords, f) # weightRecords

\* C3: of the kept records on the earliest date the first of the input is
\* firstRecord, of those on the latest date the last of the input is lastRecord.
C3_TiesKeepInputOrder ==
    Shown =>
        LET K == KeptAt(dateRange.startDate)
            iF == MinOf({i \in K : weightRecords[i].date = MinDate(K)})
            iL == MaxOf({i \in K : weightRecords[i].date = MaxDate(K)})
        IN  /\ CurrentFirst = weightRecords[iF]
            /\ CurrentLast = weightRecords[iL]
            /\ analysisResults = Result(weightRecords[iF], weightRecords[iL])

\* C3: three records on one date whose weights differ at the two ends
C3_Witness ==
    /\ Shown
    /\ Len(weightRecords) = 3
    /\ \A i \in 1..3 : weightRecords[i].date = weightRecords[1].date
    /\ weightRecords[1].weight # weightRecords[2].weight
    /\ weightRecords[2].weight # weightRecords[3].weight
    /\ analysisResults.startWeight = weightRecords[1].weight
    /\ analysisResults.endWeight = weightRecords[3].weight

\* C4: the result is that of the two end records alone: with nothing between
\* them, or with any one record of the narrow pool that leaves them the ends
\* (dated within their span, or dated before the start date), the same
\* result comes out.
C4_OnlyEndpointsMatter ==
    Shown =>
        \A f \in {CurrentFirst} : \A l \in {CurrentLast} :
            LET sd == dateRange.startDate
                Mids == {m \in NarrowPool :
                            \/ f.date <= m.date /\ m.date <= l.date
                            \/ sd # EmptyStr /\ m.date < sd}
            IN  /\ Analyze(<<f, l>>, sd) = analysisResults
                /\ \A m \in Mids :
                       Analyze(<<f, WeightRecord(0, m), l>>, sd) = analysisResults

\* C4: three records on three dates, the middle one strictly between the ends
C4_Witness ==
    /\ Shown
    /\ Len(weightRecords) = 3
    /\ Len(CurrentFiltered) = 3
    /\ CurrentFirst.date < CurrentFiltered[2].date
    /\ CurrentFiltered[2].date < CurrentLast.date
    /\ CurrentFiltered[2].weight # CurrentFirst.weight
    /\ CurrentFiltered[2].weight # CurrentLast.weight

\* C5: with a start date exactly the records dated on or after it are kept
\* and the result starts at the earliest such date; with none every record
\* is kept and the result starts at the earliest date of the series.
C5_FilterKeepsFromStartDate ==
    mounted =>
        LET sd == dateRange.startDate
            K  == KeptAt(sd)
            F  == CurrentFiltered
        IN  /\ {F[k].id : k \in 1..Len(F)} = {weightRecords[i].id : i \in K}
            /\ Len(F) = Cardinality(K)
            /\ sd = EmptyStr => Cardinality(K) = Len(weightRecords)
            /\ K = {} => analysisResults = Null
            /\ K # {} => /\ analysisResults # Null
                         /\ analysisResults.startDate = MinDate(K)
                         /\ sd # EmptyStr => analysisResults.startDate >= sd

\* C5: a record dated on the start date is kept while an earlier one is dropped
C5_Witness ==
    /\ Shown
    /\ dateRange.startDate = 2
    /\ \E i \in 1..Len(weightRecords) : weightRecords[i].date = 1
    /\ \E i \in 1..Len(weightRecords) : weightRecords[i].date = 2
    /\ analysisResults.startDate = 2

\* C6: no step changes weightRecords: the same elements, in the same order,
\* with the same fields.
C6_InputUnchanged == [][weightRecords' = weightRecords]_vars

\* C6: an unsorted series has been analysed
C6_Witness ==
    /\ Shown
    /\ Unsorted(weightRecords)
    /\ analysisResults.startDate < analysisResults.endDate

\* C7: daysBetween is the number of days from the first to the last date and
\* is not negative; the weekly loss times daysBetween/7 is the weight
\* difference when daysBetween > 0, and is the weight difference itself when
\* daysBetween = 0.
C7_DaysAndWeeklyLoss ==
    Shown =>
        LET f == CurrentFirst
            l == CurrentLast
            d == analysisResults.daysBetween
            lost   == RSub(f.weight, l.weight)
            weekly == weeklyWeightLoss(f, l)
        IN  /\ d \in Nat
            /\ d = l.date - f.date
            /\ d > 0 => RMul(weekly, <<d, 1>>) = RMul(lost, <<7, 1>>)
            /\ d = 0 => weekly = lost
            /\ analysisResults.averageWeightLossPerWeek = ToFixed(weekly, 2)

\* C7: two records of one day, 90 kg then 85 kg: the weekly loss is the raw 5 kg
C7_Witness ==
    /\ Shown
    /\ analysisResults.daysBetween = 0
    /\ analysisResults.startWeight = <<90, 1>>
    /\ analysisResults.endWeight = <<85, 1>>
    /\ analysisResults.averageWeightLossPerWeek = <<5, 1>>

\* C8 as stated: a single record analysed with no filter gives daysBetween 0,
\* every change field 0, both rates 0 and the success rate 59.2, whatever
\* the record holds.
C8_SingleRecordAllZero ==
    (mounted /\ Len(weightRecords) = 1 /\ dateRange.startDate = EmptyStr) =>
        /\ analysisResults # Null
        /\ analysisResults.daysBetween = 0
        /\ \A field \in {"weightChange", "bodyFatChange", "averageWeightLossPerWeek",
                         "bmiChange", "visceralFatChange", "muscleMassChange",
                         "fatMassLost", "leanMassChange", "waterRateChange"} :
               analysisResults[field] = <<0, 1>>
        /\ analysisResults.weightLossRate = <<0, 1>>
        /\ analysisResults.bodyFatLossRate = <<0, 1>>
        /\ analysisResults.successRate = Norm(592, 10)

\* C9: the pace score is 33.3 inside the band 0.5..1.0 and outside it
\* max(0, 33.3 - |weekly - 0.75| * 10); it lies in 0..33.3; and it is the
\* pace part of the success rate on display.
C9_PaceScore ==
    Shown =>
        \A w \in {weeklyWeightLoss(CurrentFirst, CurrentLast)} :
        \A p \in {paceScore(w)} :
            LET inBand  == ~RLess(w, <<1, 2>>) /\ ~RLess(<<1, 1>>, w)
                dist    == IF RLess(w, <<3, 4>>) THEN RSub(<<3, 4>>, w) ELSE RSub(w, <<3, 4>>)
                penalty == RSub(<<333, 10>>, RMul(dist, <<10, 1>>))
            IN  /\ inBand => p = <<333, 10>>
                /\ ~inBand => p = (IF RLess(penalty, <<0, 1>>) THEN <<0, 1>> ELSE penalty)
                /\ RLeq(<<0, 1>>, p)
                /\ RLeq(p, <<333, 10>>)
                /\ analysisResults.successRate =
                       ToFixed(RAdd(RAdd(p, fatLossScore(fatMassLost(CurrentFirst, CurrentLast))),
                                    muscleScore(leanMassChange(CurrentFirst, CurrentLast))), 1)

\* C9: 5 kg gained within one day: the penalty is far below zero, the score is 0
C9_Witness ==
    /\ Shown
    /\ analysisResults.daysBetween = 0
    /\ analysisResults.averageWeightLossPerWeek = <<-5, 1>>
    /\ paceScore(weeklyWeightLoss(CurrentFirst, CurrentLast)) = <<0, 1>>

\* C10: the fat-loss score is 33.3 when fat mass was lost and 0 otherwise,
\* the muscle score is 33.4 when lean mass did not fall and 0 otherwise, and
\* these are the fat and muscle parts of the success rate on display.
C10_BinaryScores ==
    Shown =>
        \A lost \in {fatMassLost(CurrentFirst, CurrentLast)} :
        \A lean \in {leanMassChange(CurrentFirst, CurrentLast)} :
            LET fat    == fatLossScore(lost)
                muscle == muscleScore(lean)
            IN  /\ fat = <<333, 10>> <=> lost[1] > 0
                /\ fat = <<0, 1>> <=> lost[1] <= 0
                /\ muscle = Norm(334, 10) <=> lean[1] >= 0
                /\ muscle = <<0, 1>> <=> lean[1] < 0
                /\ analysisResults.successRate =
                       ToFixed(RAdd(RAdd(paceScore(weeklyWeightLoss(CurrentFirst, CurrentLast)),
                                         fat), muscle), 1)

\* C10: two equal measurements 14 days apart: no fat lost scores 0, no lean
\* mass lost scores 33.4, and with the pace score 25.8 the rate is 59.2
C10_Witness ==
    /\ Shown
    /\ analysisResults.daysBetween = 14
    /\ fatMassLost(CurrentFirst, CurrentLast) = <<0, 1>>
    /\ leanMassChange(CurrentFirst, CurrentLast) = <<0, 1>>
    /\ CurrentFirst.bodyFat # <<0, 1>>
    /\ analysisResults.successRate = Norm(592, 10)

\* C11: the success rate lies in 0..100; it is 100.0 exactly when the weekly
\* loss is inside 0.5..1.0, fat mass was lost and lean mass did not fall; a
\* weekly loss of 0.75 with fat lost and lean mass kept gives 100.0.
C11_SuccessRateRange ==
    Shown =>
        \A w \in {weeklyWeightLoss(CurrentFirst, CurrentLast)} :
        \A lost \in {fatMassLost(CurrentFirst, CurrentLast)} :
        \A lean \in {leanMassChange(CurrentFirst, CurrentLast)} :
            LET rate == analysisResults.successRate
                all3 == /\ RLeq(Norm(5, 10), w) /\ RLeq(w, Num(1))
                        /\ lost[1] > 0
                        /\ lean[1] >= 0
            IN  /\ IsFinite(rate)
                /\ RLeq(Num(0), rate)
                /\ RLeq(rate, Num(100))
                /\ rate = Num(100) <=> all3
                /\ (w = Norm(75, 100) /\ lost[1] > 0 /\ lean[1] >= 0) => rate = Num(100)

\* C11: 86.5 kg at 36 % to 85 kg at 34 % in 14 days: 0.75 kg a week, 100.0
C11_Witness ==
    /\ Shown
    /\ analysisResults.daysBetween = 14
    /\ weeklyWeightLoss(CurrentFirst, CurrentLast) = Norm(75, 100)
    /\ fatMassLost(CurrentFirst, CurrentLast)[1] > 0
    /\ leanMassChange(CurrentFirst, CurrentLast)[1] >= 0
    /\ analysisResults.successRate = Num(100)

\* the endpoints of the worked example: 90 kg at 36 %, and 14 days later
\* 85 kg at 34 %
ExampleEndpoints ==
    /\ Shown
    /\ CurrentFirst.weight = Num(90) /\ CurrentFirst.bodyFat = Num(36)
    /\ CurrentLast.weight = Num(85) /\ CurrentLast.bodyFat = Num(34)
    /\ CurrentLast.date = CurrentFirst.date + 14

\* C12: for the endpoints of the worked example daysBetween is 14, the
\* weekly loss 2.5, the pace score 15.8, the fat mass lost 3.5 and its score
\* 33.3, the lean mass change -1.5 and its score 0, the success rate 49.1.
C12_WorkedExample ==
    ExampleEndpoints =>
        /\ analysisResults.daysBetween = 14
        /\ weeklyWeightLoss(CurrentFirst, CurrentLast) = Norm(25, 10)
        /\ analysisResults.averageWeightLossPerWeek = Norm(25, 10)
        /\ paceScore(weeklyWeightLoss(CurrentFirst, CurrentLast)) = Norm(158, 10)
        /\ analysisResults.fatMassLost = Norm(35, 10)
        /\ fatLossScore(fatMassLost(CurrentFirst, CurrentLast)) = Norm(333, 10)
        /\ analysisResults.leanMassChange = Norm(-15, 10)
        /\ muscleScore(leanMassChange(CurrentFirst, CurrentLast)) = Num(0)
        /\ analysisResults.successRate = Norm(491, 10)

\* C12: the worked example is on display
C12_Witness ==
    /\ ExampleEndpoints
    /\ analysisResults.startDate = 1
    /\ analysisResults.endDate = 15
    /\ analysisResults.successRate = Norm(491, 10)

\* the exact value x, rounded to one decimal, is the field value shown
RoundsTo(x, shown) == IsFinite(shown) /\ RLeq(RAbs(RSub(shown, x)), Norm(1, 20))

\* C13 as stated: whenever weight decreases and muscle mass increases from
\* first to last, weightChange > 0 and muscleMassChange > 0.
C13_DecreaseAndGainArePositive ==
    (/\ Shown
     /\ RLess(CurrentLast.weight, CurrentFirst.weight)
     /\ RLess(CurrentFirst.muscleMass, CurrentLast.muscleMass))
        => /\ analysisResults.weightChange[1] > 0
           /\ analysisResults.muscleMassChange[1] > 0

\* C13: weightChange, bodyFatChange, bmiChange and visceralFatChange are first
\* minus last, muscleMassChange and waterRateChange are last minus first, all
\* but visceralFatChange rounded to one decimal; so when weight decreases and
\* muscle mass increases neither weightChange nor muscleMassChange is
\* negative, and each is positive when its change is 0.1 or more.
C13_SignConventions ==
    Shown =>
        \A f \in {CurrentFirst} : \A l \in {CurrentLast} :
            /\ RoundsTo(RSub(f.weight, l.weight), analysisResults.weightChange)
            /\ RoundsTo(RSub(f.bodyFat, l.bodyFat), analysisResults.bodyFatChange)
            /\ RoundsTo(RSub(f.bmi, l.bmi), analysisResults.bmiChange)
            /\ analysisResults.visceralFatChange = RSub(f.visceralFat, l.visceralFat)
            /\ RoundsTo(RSub(l.muscleMass, f.muscleMass), analysisResults.muscleMassChange)
            /\ RoundsTo(RSub(l.waterRate, f.waterRate), analysisResults.waterRateChange)
            /\ (RLess(l.weight, f.weight) /\ RLess(f.muscleMass, l.muscleMass))
                   => /\ analysisResults.weightChange[1] >= 0
                      /\ analysisResults.muscleMassChange[1] >= 0
            /\ RLeq(Norm(1, 10), RSub(f.weight, l.weight))
                   => analysisResults.weightChange[1] > 0
            /\ RLeq(Norm(1, 10), RSub(l.muscleMass, f.muscleMass))
                   => analysisResults.muscleMassChange[1] > 0

\* C13: weight falls from 85.04 to 85 while muscle mass rises from 40 to 41:
\* the weight change on display is 0, the muscle mass change 1
C13_Witness ==
    /\ Shown
    /\ CurrentFirst.weight = Norm(8504, 100) /\ CurrentLast.weight = Num(85)
    /\ CurrentFirst.muscleMass = Num(40) /\ CurrentLast.muscleMass = Num(41)
    /\ analysisResults.weightChange = Num(0)
    /\ analysisResults.muscleMassChange = Num(1)

\* a and b are numbers of the same sign
SameSign(a, b) == ~IsNaN(a) /\ ~IsNaN(b) /\ Sign(a[1]) = Sign(b[1])

\* C14 as stated: weightLossRate is (first.weight - last.weight) /
\* first.weight * 100 and bodyFatLossRate the same of bodyFat, to one decimal;
\* each is negative whenever its endpoint value increased, and each has the
\* sign of its change field.
C14_RatesFollowChanges ==
    Shown =>
        \A f \in {CurrentFirst} : \A l \in {CurrentLast} :
            /\ RoundsTo(RMul(RDiv(RSub(f.weight, l.weight), f.weight), Num(100)),
                        analysisResults.weightLossRate)
            /\ RoundsTo(RMul(RDiv(RSub(f.bodyFat, l.bodyFat), f.bodyFat), Num(100)),
                        analysisResults.bodyFatLossRate)
            /\ RLess(f.weight, l.weight) => RLess(analysisResults.weightLossRate, Num(0))
            /\ RLess(f.bodyFat, l.bodyFat) => RLess(analysisResults.bodyFatLossRate, Num(0))
            /\ SameSign(analysisResults.weightLossRate, analysisResults.weightChange)
            /\ SameSign(analysisResults.bodyFatLossRate, analysisResults.bodyFatChange)

\* C15: every non-empty filtered series gets a result object; when the first
\* weight or the first body fat is 0 the rate of that field is the value of
\* the unguarded division (NaN for 0 / 0, an infinity otherwise), every other
\* field being a number as usual.
C15_ZeroDivisorStillReturns ==
    mounted =>
        /\ KeptAt(dateRange.startDate) # {} => analysisResults # Null
        /\ Shown =>
            \A f \in {CurrentFirst} : \A l \in {CurrentLast} :
                /\ f.weight = Num(0) =>
                       analysisResults.weightLossRate =
                           (IF l.weight = Num(0) THEN <<0, 0>> ELSE <<-1, 0>>)
                /\ f.bodyFat = Num(0) =>
                       analysisResults.bodyFatLossRate =
                           (IF l.bodyFat = Num(0) THEN <<0, 0>> ELSE <<-1, 0>>)
                /\ f.weight # Num(0) => IsFinite(analysisResults.weightLossRate)
                /\ f.bodyFat # Num(0) => IsFinite(analysisResults.bodyFatLossRate)
                /\ IsFinite(analysisResults.weightChange)
                /\ IsFinite(analysisResults.bodyFatChange)
                /\ IsFinite(analysisResults.successRate)

\* C15: a first weight of 0 and a last of 85 on display: the rate is -Infinity
C15_Witness ==
    /\ Shown
    /\ CurrentFirst.weight = Num(0)
    /\ CurrentLast.weight = Num(85)
    /\ analysisResults.weightLossRate = <<-1, 0>>
    /\ IsFinite(analysisResults.successRate)

\* the start date a rolling window of dateRange.days days has at the clock of
\* the current state
StartDateByClock == ToISODate(now - dateRange.days * MsPerDay)

\* C16: what is on display is the analysis of weightRecords from
\* dateRange.startDate on, and of nothing else: whatever the clock shows and
\* whatever dateRange.type and dateRange.days are.
C16_ResultOfSeriesAndStartDate ==
    mounted => analysisResults = Analyze(weightRecords, dateRange.startDate)

\* C16: a rolling window on display after the clock has moved on a day: the
\* analysis from the start date the clock gives now would be another
C16_Witness ==
    /\ Shown
    /\ dateRange.type = "days"
    /\ ToISODate(now) > ClockStartDay
    /\ StartDateByClock # dateRange.startDate
    /\ Analyze(weightRecords, StartDateByClock) # analysisResults

\* a step that applies a rolling window
AppliesDays == ApplyCustomDays \/ \E days \in QuickDays : QuickSelect(days)

\* C17: applying a rolling window of n days, by the apply button of the
\* day-count input (n its parsed text) or by a quick-select button, sets
\* dateRange to the UTC calendar date of now minus n days, type 'days' and
\* days n, and the analysis is the one from that date on.
C17_RollingWindowResolved ==
    [][AppliesDays =>
          \E n \in {ParseInt(customDays')[1]} :
              /\ dateRange' = [startDate |-> ToISODate(now) - n, type |-> "days", days |-> n]
              /\ analysisResults' = Analyze(weightRecords, ToISODate(now) - n)]_vars

\* C17: a window of 14 days applied on day 16 at noon, on display
C17_Witness ==
    /\ Shown
    /\ now = ClockStartDay * MsPerDay + TickMs
    /\ dateRange = [startDate |-> ClockStartDay - 14, type |-> "days", days |-> 14]
    /\ analysisResults.startDate >= ClockStartDay - 14

\* C18 as stated: a rolling window on the filter has a day count above 0.
C18_DaysPositive == dateRange.type = "days" => dateRange.days > 0

\* a step of the clock, of a tab or of an input field: no filter action
NoFilterAction ==
    \/ Tick
    \/ Mount
    \/ Unmount
    \/ Remount
    \/ \E value \in FilterDates \cup {EmptyStr} : SetCustomDate(value)
    \/ \E value \in TypedDays : SetCustomDays(value)

\* C19: the start date of the filter is set by the filter actions only (apply
\* date, apply days, quick-select, reset): it stays as it is while the clock
\* advances, when a tab is switched and when an input is edited, and the
\* analysis of a card that is shown again is the one from that start date.
C19_ResolvedOnceAtApply ==
    [][/\ NoFilterAction => dateRange' = dateRange
       /\ (Remount \/ Mount) => analysisResults' = Analyze(weightRecords, dateRange.startDate)
      ]_vars

\* C19: a window of 14 days applied on day 16 is still the one from day 2 on
\* day 17, after the card was shown anew
C19_Witness ==
    /\ Shown
    /\ ToISODate(now) = ClockStartDay + 1
    /\ dateRange = [startDate |-> ClockStartDay - 14, type |-> "days", days |-> 14]
    /\ customDays = NoDays
    /\ analysisResults.startDate = ClockStartDay - 14

\* the colour of each band
BandColor ==
    [excellent |-> "success", good |-> "info", fair |-> "warning", poor |-> "danger"]

\* C20: the band of a result on display is excellent above 80, good above 60
\* up to 80, fair above 40 up to 60 and poor up to 40, so that 80.0 is good,
\* 60.0 fair and 40.0 poor; the colour of the bar is the colour of the band
\* of the text.
C20_BandByStrictThresholds ==
    Shown =>
        \A rate \in {analysisResults.successRate} :
        \A text \in {successText(rate)} :
            /\ text = "excellent" <=> RLess(Num(80), rate)
            /\ text = "good" <=> (RLess(Num(60), rate) /\ RLeq(rate, Num(80)))
            /\ text = "fair" <=> (RLess(Num(40), rate) /\ RLeq(rate, Num(60)))
            /\ text = "poor" <=> RLeq(rate, Num(40))
            /\ backgroundColor(rate) = BandColor[text]

\* C20: a success rate of exactly 80.0 on display, good and in the info colour
C20_Witness ==
    /\ Shown
    /\ analysisResults.successRate = Num(80)
    /\ successText(analysisResults.successRate) = "good"
    /\ backgroundColor(analysisResults.successRate) = "info"

\* C21: whatever filter actions were taken, the card renders the analysis of
\* the current weightRecords from the current dateRange.startDate: the panels
\* of that result when there is one, the no-data notice when there is none.
C21_DisplayIsCurrentAnalysis ==
    mounted =>
        \A current \in {Analyze(weightRecords, dateRange.startDate)} :
            /\ Render(analysisResults) = Render(current)
            /\ current = Null <=> Render(analysisResults).view = "noData"
            /\ current # Null => Render(analysisResults).results = current

\* C21: records on file, a start date after all of them applied: the no-data
\* notice is on display while the date input still holds that date
C21_Witness ==
    /\ mounted
    /\ Len(weightRecords) = 2
    /\ dateRange = [startDate |-> 16, type |-> "custom", days |-> 0]
    /\ customDate = 16
    /\ Render(analysisResults).view = "noData"

\* x is a number with at most k decimal places
Decimals(x, k) == IsFinite(x) /\ Pow10(k) % x[2] = 0

\* C22 as stated: every derived decimal field of the result has one decimal
\* place at most, averageWeightLossPerWeek two.
C22_FieldsRounded ==
    Shown =>
        /\ Decimals(analysisResults.weightChange, 1)
        /\ Decimals(analysisResults.bodyFatChange, 1)
        /\ Decimals(analysisResults.bmiChange, 1)
        /\ Decimals(analysisResults.visceralFatChange, 1)
        /\ Decimals(analysisResults.muscleMassChange, 1)
        /\ Decimals(analysisResults.fatMassLost, 1)
        /\ Decimals(analysisResults.leanMassChange, 1)
        /\ Decimals(analysisResults.waterRateChange, 1)
        /\ Decimals(analysisResults.weightLossRate, 1)
        /\ Decimals(analysisResults.bodyFatLossRate, 1)
        /\ Decimals(analysisResults.successRate, 1)
        /\ Decimals(analysisResults.averageWeightLossPerWeek, 2)

C24_LaterStartSameEnd ==
    Shown =>
        /\ analysisResults.endDate = MaxDate(1..Len(weightRecords))
        /\ dateRange.startDate # EmptyStr => analysisResults.startDate >= dateRange.startDate
        /\ \A sd \in Dates \cup FilterDates :
               (dateRange.startDate = EmptyStr \/ sd >= dateRange.startDate) =>
                   \A later \in {Analyze(weightRecords, sd)} :
                       later # Null =>
                           /\ later.endDate = analysisResults.endDate
                           /\ later.startDate >= sd
                           /\ later.daysBetween <= analysisResults.daysBetween

\* C24: records on day 1 and day 15, analysed from day 2 on: the result runs
\* from day 15 to day 15, where the unfiltered one runs 14 days to the same end
C24_Witness ==
    /\ Shown
    /\ dateRange.startDate = 2
    /\ analysisResults.startDate = 15
    /\ analysisResults.endDate = 15
    /\ analysisResults.daysBetween = 0
    /\ Analyze(weightRecords, EmptyStr).daysBetween = 14
    /\ Analyze(weightRecords, EmptyStr).endDate = 15

\* the filter is of one of its three kinds, with the fields of that kind
WellFormedFilter ==
    /\ dateRange.type \in {"all", "custom", "days"}
    /\ dateRange.type = "all" => (dateRange.startDate = EmptyStr /\ dateRange.days = 0)
    /\ dateRange.type = "custom" => (dateRange.startDate # EmptyStr /\ dateRange.days = 0)
    /\ dateRange.type = "days" => dateRange.startDate # EmptyStr

\* C25: the filter is well-formed in every state: 'all' has no start date
\* and 0 days, 'custom' a start date and 0 days, 'days' a start date; and
\* applying a date empties the day-count input, applying days (by the button
\* or a quick-select) empties the date input, a reset empties both.
C25_FilterWellFormed ==
    /\ []WellFormedFilter
    /\ [][/\ ApplyCustomDate => customDays' = NoDays
          /\ AppliesDays => customDate' = EmptyStr
          /\ Reset => (customDate' = EmptyStr /\ customDays' = NoDays)]_vars

\* C25: a date was applied after a day count had been typed: the filter is
\* 'custom' from that date, the day-count input is empty, the date input not
C25_Witness ==
    /\ mounted
    /\ dateRange = [startDate |-> 2, type |-> "custom", days |-> 0]
    /\ customDate = 2
    /\ customDays = NoDays
    /\ now > ClockStartDay * MsPerDay

\* C26: a form that edits a record is on the sub-tab 'newConsultation' in
\* every state; a step to another sub-tab while a record is edited leaves the
\* blank form, with id null; and the edit button leads to 'newConsultation'
\* with the record in the form.
C26_EditOnlyOnFormTab ==
    /\ [](consultation.id # NoId => consultationSubTab = "newConsultation")
    /\ [][/\ (consultation.id # NoId /\ consultationSubTab' # "newConsultation")
                 => consultation' = BlankConsultation
          /\ (\E i \in 1..MaxRecords : EditConsultation(i))
                 => /\ consultationSubTab' = "newConsultation"
                    /\ consultation'.id # NoId]_vars

\* C26: the second of two records is in the form, on 'newConsultation'
C26_Witness ==
    /\ Len(consultationRecords) = 2
    /\ consultationRecords[1].id # consultationRecords[2].id
    /\ consultation = consultationRecords[2]
    /\ consultation.id # NoId
    /\ consultationSubTab = "newConsultation"

\* C27 as stated, for add and update: a submit of a form with id null
\* appends one record with an id that no record had and leaves the others as
\* they are; a submit of a form with an id replaces the one record of that id
\* and leaves the length, the order and the others as they are; after either
\* the form is blank and the sub-tab is 'records'.
C27_AddAndUpdateById ==
    [][SubmitConsultation =>
          /\ consultation' = BlankConsultation
          /\ consultationSubTab' = "records"
          /\ consultation.id = NoId =>
                 /\ Len(consultationRecords') = Len(consultationRecords) + 1
                 /\ SubSeq(consultationRecords', 1, Len(consultationRecords))
                        = consultationRecords
                 /\ \E new \in {consultationRecords'[Len(consultationRecords')]} :
                        /\ new.id # NoId
                        /\ \A i \in 1..Len(consultationRecords) :
                               consultationRecords[i].id # new.id
                        /\ [new EXCEPT !.id = NoId] = consultation
          /\ consultation.id # NoId =>
                 /\ Len(consultationRecords') = Len(consultationRecords)
                 /\ \E i \in 1..Len(consultationRecords) :
                        /\ consultationRecords[i].id = consultation.id
                        /\ consultationRecords'[i] = consultation
                        /\ \A j \in 1..Len(consultationRecords) :
                               j # i => consultationRecords'[j] = consultationRecords[j]
      ]_vars

\* C28 as stated: the ids of the records of the list are numbers, no two of
\* them the same.
C28_IdsDistinct ==
    \A i, j \in 1..Len(consultationRecords) :
        /\ consultationRecords[i].id # NoId
        /\ i # j => consultationRecords[i].id # consultationRecords[j].id

\* C29: with a start and an end date set the list shows, in their order,
\* exactly the records dated from the start to the end date, both included;
\* with either bound empty it shows every record; a reset empties both.
C29_ListFilter ==
    /\ [] \A shown \in {filteredConsultations(consultationRecords, consultationDateRange)} :
            \A from \in {consultationDateRange.startDate} :
            \A to \in {consultationDateRange.endDate} :
                /\ \A k \in 1..(Len(shown) - 1) : shown[k] < shown[k + 1]
                /\ (from # EmptyStr /\ to # EmptyStr) =>
                       {shown[k] : k \in 1..Len(shown)} =
                           {i \in 1..Len(consultationRecords) :
                                /\ from <= consultationRecords[i].consultationDate
                                /\ consultationRecords[i].consultationDate <= to}
                /\ (from = EmptyStr \/ to = EmptyStr) =>
                       shown = [i \in 1..Len(consultationRecords) |-> i]
    /\ [][ResetFilter => consultationDateRange' = NoConsultationFilter]_vars

\* C29: records of day 2 and day 16 under the filter from day 2 to day 15:
\* the first is shown, the second is not
C29_Witness ==
    /\ Len(consultationRecords) = 2
    /\ consultationRecords[1].consultationDate = 2
    /\ consultationRecords[2].consultationDate = 16
    /\ consultationDateRange = [startDate |-> 2, endDate |-> 15]
    /\ filteredConsultations(consultationRecords, consultationDateRange) = <<1>>

\* C30 as stated: the colours of the weight change and of the weight loss
\* percentage tell the same: both the colour of success, and no '+' in front
\* of the change, when weight decreased; both the colour of danger when it
\* increased.
C30_WeightPanelConsistent ==
    Shown =>
        /\ weightChangeColor(analysisResults) = weightLossRateColor(analysisResults)
        /\ RLess(CurrentLast.weight, CurrentFirst.weight) =>
               /\ weightChangeColor(analysisResults) = "success"
               /\ weightLossRateColor(analysisResults) = "success"
               /\ weightChangeSign(analysisResults) # "+"
        /\ RLess(CurrentFirst.weight, CurrentLast.weight) =>
               /\ weightChangeColor(analysisResults) = "danger"
               /\ weightLossRateColor(analysisResults) = "danger"

====
